---- MODULE Spec2Model ----
(***************************************************************************)
(* The datastore cache of the catalogue store (useCatalogStore): the cache *)
(* map, the asynchronous calls loadDatastore / loadDatastoreData running   *)
(* on the single-threaded event loop (each call is a task that advances    *)
(* from one await to the next), and clearDatastoreCache.                   *)
(*                                                                         *)
(* Spec        : the store of src/src/stores/catalogStore.ts               *)
(* SpecLive    : the same store, one call per task, with the fairness of   *)
(*               the event loop                                            *)
(* SpecCoalesce: the same store, concurrent loadDatastore calls on a cold  *)
(*               cache only                                                *)
(* SpecSidecar : the store variant of src/unnamed/part_018 (row count read *)
(*               from the sidecar metadata, 10,000-row threshold)          *)
(* SpecCatalog : fetchCatalogData and clearData of the same store          *)
(* SpecStore   : the metacatalogue together with metadata loads            *)
(* SpecBuffer  : the open-dropdown buffering of the dynamic filter options *)
(* SpecFilter  : the narrowed filter options and the row filter            *)
(***************************************************************************)
EXTENDS Integers, Sequences, FiniteSets, TLC

\* ---------------------------------------------------------------- bounds
\* Number of logical tasks (concurrent async calls) that may exist at once.
MaxCallers == 2
\* Number of load sequences that may be started in one behaviour.
MaxLoads == 2

Callers == 1..MaxCallers
Names == {"A", "B"}

\* ------------------------------------------------------------ JS values
\* `null` / absent optional value, and a present value.
Null == <<>>
Some(x) == <<x>>

\* A thrown value: an Error object carrying a message, or a non-Error value.
Err(msg) == [isError |-> TRUE, message |-> msg]
NonError == [isError |-> FALSE, message |-> ""]

\* ------------------------------------------------------ the environment
\* Row count of each dataset's main parquet file (fixed for a behaviour).
Threshold == 10000
DatasetRows(n) == IF n = "A" THEN Threshold ELSE Threshold + 1

\* Schema of the main parquet file as DESCRIBE reports it.
SchemaColumns == <<"path", "experiment", "__index_level_0__", "realm">>

\* Project of the dataset: first path segment after /g/data/, or null.
DatasetProject(n) == IF n = "A" THEN Some("p73") ELSE Null

\* HTTP statuses a fetch may answer with.
OkStatus == "200"
Statuses == {OkStatus, "404"}

\* The one row of a well-formed sidecar file: column -> unique values.
SidecarRow == [c \in {"experiment", "realm"} |-> <<"e1", "e2">>]
SidecarCases == {<<>>, <<SidecarRow>>, <<SidecarRow, SidecarRow>>}

\* ------------------------------------------------------------ the state
VARIABLES
    cache,        \* datastoreCache.value: name -> DatastoreCache (partial)
    callers,      \* the async calls in progress, one record per task
    loads,        \* number of load sequences started so far
    mainFetches,  \* per name: fetch() calls issued for <name>.parquet
    sidecarFetches, \* per name: fetch() calls issued for <name>_uniqs.parquet
    evicted,      \* history: clearDatastoreCache has been called
    failed,       \* history: the load sequences that have failed
    metacat,      \* the metacatalogue refs: data, rawDataSample, loading, error
    fetchers,     \* the fetchCatalogData calls in progress, one record per task
    catalogFetches, \* fetch() calls issued for the metacatalogue file
    catalogDisturbed, \* history: a fetchCatalogData call has failed or
                  \* clearData has been called
    openColumns,  \* columns whose dropdown is open
    pendingUpdates, \* column -> options buffered while its dropdown is open
    liveOptions,  \* column -> options shown to the user
    applied,      \* history: the column whose buffered options the last
                  \* step applied, if it applied any
    lastRecompute, \* history: the options the most recent recompute produced
    rawData,      \* FilterSelectors props.rawData: the rows of the datastore
    filterOptions, \* FilterSelectors props.filterOptions: column -> options
    modelValue    \* FilterSelectors props.modelValue: column -> selection

datastoreVars == <<cache, callers, loads, mainFetches, sidecarFetches, evicted, failed>>
catalogVars == <<metacat, fetchers, catalogFetches, catalogDisturbed>>
bufferVars == <<openColumns, pendingUpdates, liveOptions, applied, lastRecompute>>
filterVars == <<rawData, filterOptions, modelValue>>

\* What an operation of the datastore cache leaves alone.
DatastoreOnly == UNCHANGED <<catalogVars, bufferVars, filterVars>>

vars == <<cache, callers, loads, mainFetches, sidecarFetches, evicted, failed,
          metacat, fetchers, catalogFetches, catalogDisturbed,
          openColumns, pendingUpdates, liveOptions, applied, lastRecompute,
          rawData, filterOptions, modelValue>>

\* ------------------------------------------------------ cache entries
\* Fields of DatastoreCache. `data` is kept as rows.length, `load` records
\* which load sequence wrote the object (it stands for lastFetched).
EmptyOptions == [c \in {} |-> <<>>]

InitialEntry(load) ==
    [data |-> 0, totalRecords |-> 0, columns |-> <<>>,
     filterOptions |-> EmptyOptions, loading |-> TRUE, dataLoaded |-> FALSE,
     error |-> Null, project |-> Null, load |-> load]

LoadedEntry(rows, total, cols, opts, loadData, project, load) ==
    [data |-> rows, totalRecords |-> total, columns |-> cols,
     filterOptions |-> opts, loading |-> FALSE, dataLoaded |-> loadData,
     error |-> Null, project |-> project, load |-> load]

ErroredEntry(msg, load) ==
    [data |-> 0, totalRecords |-> 0, columns |-> <<>>,
     filterOptions |-> EmptyOptions, loading |-> FALSE, dataLoaded |-> FALSE,
     error |-> Some(msg), project |-> Null, load |-> load]

createEmptyCache ==
    [data |-> 0, totalRecords |-> 0, columns |-> <<>>,
     filterOptions |-> EmptyOptions, loading |-> FALSE, dataLoaded |-> FALSE,
     error |-> Some("Datastore not found"), project |-> Null, load |-> 0]

\* A catch block that stores err.message whatever was thrown (nothing to
\* store for a thrown non-Error).
ErrorMessageUnguarded(err) == err.message

\* err instanceof Error ? err.message : 'Failed to load datastore'
ErrorMessage(err) ==
    IF err.isError THEN err.message ELSE "Failed to load datastore"

\* err instanceof Error ? err.message : 'Failed to load datastore data'
DataErrorMessage(err) ==
    IF err.isError THEN err.message ELSE "Failed to load datastore data"

\* ------------------------------------------------------ pure helpers
\* dataColumns.filter((col) => col !== '__index_level_0__')
setupColumns(dataColumns) ==
    SelectSeq(dataColumns, LAMBDA col : col # "__index_level_0__")

\* getDatastoreMetadata: COUNT(*) and the schema without filename / path.
getDatastoreMetadata(n) ==
    [totalRecords |-> DatasetRows(n),
     columns |-> SelectSeq(SchemaColumns,
                           LAMBDA col : col # "filename" /\ col # "path")]

\* v !== null && v !== undefined && String(v).trim()
NonBlank(v) == v # "" /\ v # " "

\* getFilterOptions: {} when the query throws or returns no row, otherwise
\* the non-blank values of each column of the first row (values are kept in
\* the order of the sidecar, which stores them sorted).
getFilterOptions(rows, queryFails) ==
    IF queryFails THEN EmptyOptions
    ELSE IF Len(rows) = 0 THEN EmptyOptions
    ELSE [c \in DOMAIN rows[1] |-> SelectSeq(rows[1][c], NonBlank)]

\* queryEsmDatastore(conn, fileName, columns, limit?): rows returned.
InitialLoadLimit == 1000
queryEsmDatastore(n, limit) ==
    IF limit = Null THEN DatasetRows(n)
    ELSE IF DatasetRows(n) < limit[1] THEN DatasetRows(n) ELSE limit[1]

\* ------------------------------------------------------------- tasks
\* One record per logical task.  pc is the await the task is suspended at:
\*   idle | fetch | buffer | register | query | rows | cleanup | wait | done
\* (the variant of part_018 also has sample | fetchMain | registerMain).
\* engine is the engine instance of the call (initializeDuckDB):
\*   none | started (created, not yet in db / conn) | held (db and conn
\*   are set) | closed (conn.close() and db.terminate() have run)
\* revived records that the call wrote its entry under a name that had no
\* entry at that moment.
IdleCaller ==
    [op |-> "none", name |-> "A", loadData |-> FALSE, pc |-> "idle",
     load |-> 0, awaited |-> 0, attached |-> FALSE, obj |-> Null,
     opts |-> EmptyOptions, numRecords |-> 0, err |-> Null,
     outcome |-> "pending", result |-> Null,
     engine |-> "none", revived |-> FALSE]

Has(n) == n \in DOMAIN cache

\* A write that replaces the whole cache object by the one entry.
PutAlone(n, entry) == [m \in {n} |-> entry]

\* datastoreCache.value[name] = entry
Put(n, entry) == [m \in DOMAIN cache \cup {n} |-> IF m = n THEN entry ELSE cache[m]]

\* An eviction that drops every entry, whatever the name.
DeleteEverything(n) == [m \in {} |-> createEmptyCache]

\* delete datastoreCache.value[name]
Delete(n) == [m \in DOMAIN cache \ {n} |-> cache[m]]

\* The object a loadDatastoreData task captured as `cached` stops being the
\* object stored in the cache once the slot of its name is replaced or deleted.
Detached(cs, ns) ==
    [c \in Callers |->
        IF cs[c].name \in ns /\ cs[c].attached
        THEN [cs[c] EXCEPT !.attached = FALSE] ELSE cs[c]]

\* data = ref([]), loading = ref(false), error = ref(null),
\* rawDataSample = ref([]); the arrays are kept as their lengths.
InitialMetacat ==
    [data |-> 0, rawDataSample |-> 0, loading |-> FALSE, error |-> Null]

\* One record per fetchCatalogData task; pc is the await it is suspended at:
\*   idle | fetch | register | query | cleanup | done
IdleFetcher ==
    [pc |-> "idle", fetched |-> FALSE, wrote |-> FALSE, outcome |-> "pending",
     engine |-> "none"]

\* The columns with a filter dropdown and the option lists a recompute may
\* produce for one of them.
Columns == {"frequency", "realm"}
OptionLists == {<<"daily", "monthly", "annual">>, <<"daily", "monthly">>, <<"daily">>}
StaticOptions == [col \in Columns |-> <<"daily", "monthly", "annual">>]
NoPending == [col \in {} |-> <<>>]

\* FilterSelectors before the datastore is loaded: no rows, no options
\* (`cachedDatastore?.filterOptions || {}`), no selection.
NoSelection == [col \in Columns |-> <<>>]

Init ==
    /\ metacat = InitialMetacat
    /\ fetchers = [c \in Callers |-> IdleFetcher]
    /\ catalogFetches = 0
    /\ catalogDisturbed = FALSE
    /\ openColumns = {}
    /\ pendingUpdates = NoPending
    /\ liveOptions = StaticOptions
    /\ applied = Null
    /\ lastRecompute = Null
    /\ rawData = <<>>
    /\ filterOptions = [col \in {} |-> <<>>]
    /\ modelValue = NoSelection
    /\ cache = [n \in {} |-> createEmptyCache]
    /\ callers = [c \in Callers |-> IdleCaller]
    /\ loads = 0
    /\ mainFetches = [n \in Names |-> 0]
    /\ sidecarFetches = [n \in Names |-> 0]
    /\ evicted = FALSE
    /\ failed = {}

\* ------------------------------------------- loadDatastore (catalogStore.ts)
\* A cache-hit test without the `if (!loadData) return cached` branch.
CacheHitOnlyWithData(cached, loadData) == ~cached.loading /\ cached.dataLoaded

\* if (cached && !cached.loading) { if (!loadData) return cached;
\*                                  if (cached.dataLoaded) return cached; }
CacheHit(cached, loadData) ==
    ~cached.loading /\ (~loadData \/ cached.dataLoaded)

\* A loadDatastore without the in-flight test.
AlreadyLoadingUnchecked(n) == FALSE

\* if (cached?.loading): a load of this name is already in flight
AlreadyLoading(n) == Has(n) /\ cache[n].loading

\* A polling loop that does not look at the loading flag.
StillLoadingIgnored(n) == FALSE

\* A polling loop that never sees the load end.
StillLoadingForever(n) == TRUE

\* while (datastoreCache.value[datastoreName]?.loading)
StillLoading(n) == Has(n) /\ cache[n].loading

\* A polling loop that always returns createEmptyCache().
PollResultAlwaysEmpty(n) == createEmptyCache

\* A polling loop that returns a loading placeholder for a missing entry.
PollResultPlaceholder(n) == IF Has(n) THEN cache[n] ELSE InitialEntry(0)

\* return datastoreCache.value[datastoreName] || createEmptyCache()
PollResult(n) == IF Has(n) THEN cache[n] ELSE createEmptyCache

\* A loadDatastoreData without the dataLoaded test.
DataLoadedIgnored(cached) == FALSE

\* if (cached.dataLoaded) return cached   (loadDatastoreData)
DataLoaded(cached) == cached.dataLoaded

\* The promise of task c settles with `entry` at once (a return before any
\* await of the function).
ReturnNow(c, n, op, ld, entry) ==
    /\ callers' = [callers EXCEPT ![c] =
          [IdleCaller EXCEPT !.op = op, !.name = n, !.loadData = ld,
                             !.pc = "done", !.outcome = "resolved",
                             !.result = Some(entry)]]
    /\ UNCHANGED <<cache, loads, mainFetches, sidecarFetches, evicted, failed>>

\* The task found the entry loading and sleeps in the polling loop.
StartWaiting(c, n, op, ld) ==
    /\ callers' = [callers EXCEPT ![c] =
          [IdleCaller EXCEPT !.op = op, !.name = n, !.loadData = ld,
                             !.pc = "wait", !.awaited = cache[n].load]]
    /\ UNCHANGED <<cache, loads, mainFetches, sidecarFetches, evicted, failed>>

\* Initialise the cache entry and issue both fetches and initializeDuckDB.
StartLoad(c, n, op, ld) ==
    /\ loads < MaxLoads
    /\ loads' = loads + 1
    /\ cache' = Put(n, InitialEntry(loads + 1))
    /\ mainFetches' = [mainFetches EXCEPT ![n] = @ + 1]
    /\ sidecarFetches' = [sidecarFetches EXCEPT ![n] = @ + 1]
    /\ callers' = [Detached(callers, {n}) EXCEPT ![c] =
          [IdleCaller EXCEPT !.op = op, !.name = n, !.loadData = ld,
                             !.pc = "fetch", !.load = loads + 1,
                             !.engine = "started"]]
    /\ UNCHANGED <<evicted, failed>>

\* The synchronous head of loadDatastore(datastoreName, loadData).
LoadDatastoreHead(c, n, op, ld) ==
    IF Has(n) /\ CacheHit(cache[n], ld) THEN ReturnNow(c, n, op, ld, cache[n])
    ELSE IF AlreadyLoading(n) THEN StartWaiting(c, n, op, ld)
    ELSE StartLoad(c, n, op, ld)

loadDatastore(c, n, ld) ==
    /\ DatastoreOnly
    /\ /\ callers[c].pc = "idle"
       /\ LoadDatastoreHead(c, n, "loadDatastore", ld)

\* catch (err): record the error on a fresh entry; the throw is pending
\* until the finally block has run.
LoadDatastoreCatch(c, err) ==
    LET n == callers[c].name IN
    /\ cache' = Put(n, ErroredEntry(ErrorMessage(err), callers[c].load))
    /\ callers' = [Detached(callers, {n}) EXCEPT
                      ![c].pc = "cleanup", ![c].err = Some(err),
                      ![c].revived = ~Has(n)]
    /\ failed' = failed \cup {callers[c].load}
    /\ UNCHANGED <<loads, mainFetches, sidecarFetches, evicted>>

\* A completion that discards its result instead of writing it.
LoadDatastoreWriteDiscarded(c, rows) ==
    /\ callers' = [callers EXCEPT ![c].pc = "cleanup"]
    /\ UNCHANGED <<cache, loads, mainFetches, sidecarFetches, evicted, failed>>

\* Update cache with loaded data; the return value is read from the cache.
LoadDatastoreWrite(c, rows) ==
    LET n == callers[c].name
        metadata == getDatastoreMetadata(n)
        entry == LoadedEntry(rows, metadata.totalRecords,
                             setupColumns(metadata.columns), callers[c].opts,
                             callers[c].loadData, DatasetProject(n),
                             callers[c].load)
    IN
    /\ cache' = Put(n, entry)
    /\ callers' = [Detached(callers, {n}) EXCEPT
                      ![c].pc = "cleanup", ![c].result = Some(entry),
                      ![c].revived = ~Has(n)]
    /\ UNCHANGED <<loads, mainFetches, sidecarFetches, evicted, failed>>

Advance(c, pc) ==
    /\ callers' = [callers EXCEPT ![c].pc = pc]
    /\ UNCHANGED <<cache, loads, mainFetches, sidecarFetches, evicted, failed>>

\* db = dbConnection.db; conn = dbConnection.conn, then the next await.
Acquire(c, pc) ==
    /\ callers' = [callers EXCEPT ![c].pc = pc, ![c].engine = "held"]
    /\ UNCHANGED <<cache, loads, mainFetches, sidecarFetches, evicted, failed>>

\* Values a rejected promise of the environment (network, engine) carries.
Rejections == {Err("Network error"), NonError}
MaybeRejection == {Null} \cup {Some(e) : e \in Rejections}

Running(c, pc) ==
    /\ callers[c].op = "loadDatastore"
    /\ callers[c].pc = pc

\* await Promise.all([fetch(datastoreUrl), fetch(sidecarUrl), initializeDuckDB()])
\* followed by the two response.ok checks.
LoadDatastoreFetched(c, rej, mainStatus, sidecarStatus) ==
    /\ DatastoreOnly
    /\ /\ Running(c, "fetch")
       /\ IF rej # Null THEN LoadDatastoreCatch(c, rej[1])
          ELSE IF mainStatus # OkStatus
            THEN LoadDatastoreCatch(c,
                    Err("Failed to fetch datastore parquet file: " \o mainStatus))
          ELSE IF sidecarStatus # OkStatus
            THEN LoadDatastoreCatch(c,
                    Err("Failed to fetch sidecar parquet file: " \o sidecarStatus))
          ELSE Advance(c, "buffer")

\* await Promise.all([response.arrayBuffer(), sidecarResponse.arrayBuffer()])
LoadDatastoreBuffered(c, rej) ==
    /\ DatastoreOnly
    /\ /\ Running(c, "buffer")
       /\ IF rej # Null THEN LoadDatastoreCatch(c, rej[1])
          ELSE Acquire(c, "register")

\* await db.registerFileBuffer(...) for the main file and for the sidecar
LoadDatastoreRegistered(c, rej) ==
    /\ DatastoreOnly
    /\ /\ Running(c, "register")
       /\ IF rej # Null THEN LoadDatastoreCatch(c, rej[1])
          ELSE Advance(c, "query")

\* await Promise.all([getDatastoreMetadata, getEsmDatastoreProject,
\*                    getFilterOptions]); rej is a failure of one of the
\* first two, getFilterOptions never rejects.
LoadDatastoreQueried(c, rej, sidecarRows, sidecarFails) ==
    /\ DatastoreOnly
    /\ /\ Running(c, "query")
       /\ IF rej # Null THEN LoadDatastoreCatch(c, rej[1])
          ELSE IF callers[c].loadData
            THEN /\ callers' = [callers EXCEPT
                      ![c].pc = "rows",
                      ![c].opts = getFilterOptions(sidecarRows, sidecarFails)]
                 /\ UNCHANGED <<cache, loads, mainFetches, sidecarFetches, evicted, failed>>
          ELSE LET opts == getFilterOptions(sidecarRows, sidecarFails)
                   n == callers[c].name
                   metadata == getDatastoreMetadata(n)
                   entry == LoadedEntry(0, metadata.totalRecords,
                                        setupColumns(metadata.columns), opts,
                                        FALSE, DatasetProject(n), callers[c].load)
               IN /\ cache' = Put(n, entry)
                  /\ callers' = [Detached(callers, {n}) EXCEPT
                                    ![c].pc = "cleanup", ![c].opts = opts,
                                    ![c].result = Some(entry),
                                    ![c].revived = ~Has(n)]
                  /\ UNCHANGED <<loads, mainFetches, sidecarFetches, evicted, failed>>

\* datastoreData = await queryEsmDatastore(conn, fileName, metadata.columns)
LoadDatastoreRowsLoaded(c, rej) ==
    /\ DatastoreOnly
    /\ /\ Running(c, "rows")
       /\ IF rej # Null THEN LoadDatastoreCatch(c, rej[1])
          ELSE LoadDatastoreWrite(c, queryEsmDatastore(callers[c].name, Null))

\* finally { if (conn) await conn.close(); if (db) await db.terminate(); }
\* after which the promise settles: resolved with the value returned, or
\* rejected with the error rethrown by the catch block.
Cleanup(c) ==
    /\ DatastoreOnly
    /\ /\ callers[c].pc = "cleanup"
       /\ callers' = [callers EXCEPT
             ![c].pc = "done",
             ![c].engine = IF callers[c].engine = "held" THEN "closed"
                           ELSE callers[c].engine,
             ![c].outcome = IF callers[c].err = Null THEN "resolved" ELSE "rejected"]
       /\ UNCHANGED <<cache, loads, mainFetches, sidecarFetches, evicted, failed>>

\* One wake-up of the polling loop
\*   while (datastoreCache.value[name]?.loading) await sleep(100);
\*   return datastoreCache.value[name] || createEmptyCache();
\* A wake-up that still finds the entry loading changes nothing.
PollWith(c, entry) ==
    /\ DatastoreOnly
    /\ LET n == callers[c].name IN
       /\ callers[c].pc = "wait"
       /\ ~StillLoading(n)
       /\ callers' = [callers EXCEPT
             ![c].pc = "done", ![c].outcome = "resolved",
             ![c].result = Some(entry)]
       /\ UNCHANGED <<cache, loads, mainFetches, sidecarFetches, evicted, failed>>

Poll(c) == PollWith(c, PollResult(callers[c].name))

\* The code that awaited the call consumes its settled promise.
Release(c) ==
    /\ DatastoreOnly
    /\ /\ callers[c].pc = "done"
       /\ callers' = [callers EXCEPT ![c] = IdleCaller]
       /\ UNCHANGED <<cache, loads, mainFetches, sidecarFetches, evicted, failed>>

\* ---------------------------------------------------- clearDatastoreCache
\* name given: delete the entry; no name: replace the whole cache.
clearDatastoreCache(name) ==
    /\ DatastoreOnly
    /\ /\ IF name # Null
          THEN /\ cache' = Delete(name[1])
               /\ callers' = Detached(callers, {name[1]})
          ELSE /\ cache' = [n \in {} |-> createEmptyCache]
               /\ callers' = Detached(callers, Names)
       /\ evicted' = TRUE
       /\ UNCHANGED <<loads, mainFetches, sidecarFetches, failed>>

\* --------------------------------------- loadDatastoreData (catalogStore.ts)
\* The synchronous head of loadDatastoreData(datastoreName).
loadDatastoreData(c, n) ==
    /\ DatastoreOnly
    /\ /\ callers[c].pc = "idle"
       /\ IF ~Has(n) THEN LoadDatastoreHead(c, n, "loadDatastore", TRUE)
          ELSE IF DataLoaded(cache[n])
            THEN ReturnNow(c, n, "loadDatastoreData", TRUE, cache[n])
          ELSE IF AlreadyLoading(n)
            THEN StartWaiting(c, n, "loadDatastoreData", TRUE)
          ELSE \* cached.loading = true, then fetch(datastoreUrl) is issued
               /\ loads < MaxLoads
               /\ loads' = loads + 1
               /\ cache' = [cache EXCEPT ![n].loading = TRUE, ![n].load = loads + 1]
               /\ mainFetches' = [mainFetches EXCEPT ![n] = @ + 1]
               /\ callers' = [callers EXCEPT ![c] =
                     [IdleCaller EXCEPT !.op = "loadDatastoreData", !.name = n,
                                        !.loadData = TRUE, !.pc = "fetch",
                                        !.engine = "started",
                                        !.load = loads + 1, !.attached = TRUE,
                                        !.obj = Some(cache'[n])]]
               /\ UNCHANGED <<sidecarFetches, evicted, failed>>

\* A write to the captured object `cached`: it shows in the cache only while
\* the cache still holds that object.
MutateCached(c, obj, pc, err, result) ==
    LET n == callers[c].name IN
    /\ cache' = IF callers[c].attached THEN Put(n, obj) ELSE cache
    /\ callers' = [callers EXCEPT ![c].obj = Some(obj), ![c].pc = pc,
                                  ![c].err = err, ![c].result = result]
    /\ failed' = IF err # Null THEN failed \cup {callers[c].load} ELSE failed
    /\ UNCHANGED <<loads, mainFetches, sidecarFetches, evicted>>

\* catch (err) { cached.loading = false; cached.error = ...; throw err; }
LoadDatastoreDataCatch(c, err) ==
    MutateCached(c, [callers[c].obj[1] EXCEPT
                        !.loading = FALSE,
                        !.error = Some(DataErrorMessage(err))],
                 "cleanup", Some(err), Null)

RunningData(c, pc) ==
    /\ callers[c].op = "loadDatastoreData"
    /\ callers[c].pc = pc

\* await Promise.all([fetch(datastoreUrl), initializeDuckDB()]), response.ok
LoadDatastoreDataFetched(c, rej, mainStatus) ==
    /\ DatastoreOnly
    /\ /\ RunningData(c, "fetch")
       /\ IF rej # Null THEN LoadDatastoreDataCatch(c, rej[1])
          ELSE IF mainStatus # OkStatus
            THEN LoadDatastoreDataCatch(c,
                    Err("Failed to fetch datastore parquet file: " \o mainStatus))
          ELSE Advance(c, "buffer")

\* await response.arrayBuffer()
LoadDatastoreDataBuffered(c, rej) ==
    /\ DatastoreOnly
    /\ /\ RunningData(c, "buffer")
       /\ IF rej # Null THEN LoadDatastoreDataCatch(c, rej[1])
          ELSE Acquire(c, "register")

\* await db.registerFileBuffer(fileName, uint8Array)
LoadDatastoreDataRegistered(c, rej) ==
    /\ DatastoreOnly
    /\ /\ RunningData(c, "register")
       /\ IF rej # Null THEN LoadDatastoreDataCatch(c, rej[1])
          ELSE Advance(c, "rows")

\* await queryEsmDatastore(conn, fileName, cached.columns, 1000, 0), then
\* cached.data = ...; cached.dataLoaded = true; cached.loading = false
LoadDatastoreDataRowsLoaded(c, rej) ==
    /\ DatastoreOnly
    /\ /\ RunningData(c, "rows")
       /\ IF rej # Null THEN LoadDatastoreDataCatch(c, rej[1])
          ELSE LET obj == [callers[c].obj[1] EXCEPT
                              !.data = queryEsmDatastore(callers[c].name,
                                                         Some(InitialLoadLimit)),
                              !.dataLoaded = TRUE,
                              !.loading = FALSE]
               IN MutateCached(c, obj, "cleanup", Null, Some(obj))

\* ------------------------------------------------------- specification
Next ==
    \/ \E c \in Callers, n \in Names, ld \in BOOLEAN : loadDatastore(c, n, ld)
    \/ \E c \in Callers, n \in Names : loadDatastoreData(c, n)
    \/ \E c \in Callers, rej \in MaybeRejection, ms \in Statuses, ss \in Statuses :
          LoadDatastoreFetched(c, rej, ms, ss)
    \/ \E c \in Callers, rej \in MaybeRejection : LoadDatastoreBuffered(c, rej)
    \/ \E c \in Callers, rej \in MaybeRejection : LoadDatastoreRegistered(c, rej)
    \/ \E c \in Callers, rej \in MaybeRejection, rows \in SidecarCases,
          fails \in BOOLEAN : LoadDatastoreQueried(c, rej, rows, fails)
    \/ \E c \in Callers, rej \in MaybeRejection : LoadDatastoreRowsLoaded(c, rej)
    \/ \E c \in Callers, rej \in MaybeRejection, ms \in Statuses :
          LoadDatastoreDataFetched(c, rej, ms)
    \/ \E c \in Callers, rej \in MaybeRejection : LoadDatastoreDataBuffered(c, rej)
    \/ \E c \in Callers, rej \in MaybeRejection : LoadDatastoreDataRegistered(c, rej)
    \/ \E c \in Callers, rej \in MaybeRejection : LoadDatastoreDataRowsLoaded(c, rej)
    \/ \E c \in Callers : Cleanup(c)
    \/ \E c \in Callers : Poll(c)
    \/ \E c \in Callers : Release(c)
    \/ \E name \in {Null} \cup {Some(n) : n \in Names} : clearDatastoreCache(name)

Spec == Init /\ [][Next]_vars

\* ------------------------------------------------ specification (progress)
\* One call per task on one dataset, racing with clearDatastoreCache.  The
\* event loop runs every continuation that is ready: a fetch or engine
\* operation that is awaited completes or fails, and a sleeping poll wakes
\* up, so each task that can take its next step eventually takes it.
StepOf(c) ==
    \/ \E rej \in MaybeRejection, ms \in Statuses, ss \in Statuses :
          LoadDatastoreFetched(c, rej, ms, ss)
    \/ \E rej \in MaybeRejection : LoadDatastoreBuffered(c, rej)
    \/ \E rej \in MaybeRejection : LoadDatastoreRegistered(c, rej)
    \/ \E rej \in MaybeRejection, rows \in SidecarCases, fails \in BOOLEAN :
          LoadDatastoreQueried(c, rej, rows, fails)
    \/ \E rej \in MaybeRejection : LoadDatastoreRowsLoaded(c, rej)
    \/ \E rej \in MaybeRejection, ms \in Statuses : LoadDatastoreDataFetched(c, rej, ms)
    \/ \E rej \in MaybeRejection : LoadDatastoreDataBuffered(c, rej)
    \/ \E rej \in MaybeRejection : LoadDatastoreDataRegistered(c, rej)
    \/ \E rej \in MaybeRejection : LoadDatastoreDataRowsLoaded(c, rej)
    \/ Cleanup(c)
    \/ Poll(c)

\* The calls of this specification are all on one dataset.
LiveNames == {"A"}

NextLive ==
    \/ \E c \in Callers, n \in LiveNames, ld \in BOOLEAN : loadDatastore(c, n, ld)
    \/ \E c \in Callers, n \in LiveNames : loadDatastoreData(c, n)
    \/ \E c \in Callers, rej \in MaybeRejection, ms \in Statuses, ss \in Statuses :
          LoadDatastoreFetched(c, rej, ms, ss)
    \/ \E c \in Callers, rej \in MaybeRejection : LoadDatastoreBuffered(c, rej)
    \/ \E c \in Callers, rej \in MaybeRejection : LoadDatastoreRegistered(c, rej)
    \/ \E c \in Callers, rej \in MaybeRejection, rows \in SidecarCases,
          fails \in BOOLEAN : LoadDatastoreQueried(c, rej, rows, fails)
    \/ \E c \in Callers, rej \in MaybeRejection : LoadDatastoreRowsLoaded(c, rej)
    \/ \E c \in Callers, rej \in MaybeRejection, ms \in Statuses :
          LoadDatastoreDataFetched(c, rej, ms)
    \/ \E c \in Callers, rej \in MaybeRejection : LoadDatastoreDataBuffered(c, rej)
    \/ \E c \in Callers, rej \in MaybeRejection : LoadDatastoreDataRegistered(c, rej)
    \/ \E c \in Callers, rej \in MaybeRejection : LoadDatastoreDataRowsLoaded(c, rej)
    \/ \E c \in Callers : Cleanup(c)
    \/ \E c \in Callers : Poll(c)
    \/ \E name \in {Null} \cup {Some(n) : n \in LiveNames} : clearDatastoreCache(name)

SpecLive ==
    Init /\ [][NextLive]_vars /\ \A c \in Callers : WF_vars(StepOf(c))

\* ------------------------------------------------ specification (cold cache)
\* N concurrent loadDatastore(name) calls on a cache without an entry for the
\* name: calls are issued only while no call for that name has settled, and
\* nothing else touches the cache.
NoneSettled(n) ==
    \A d \in Callers : callers[d].name = n => callers[d].pc # "done"

NextCoalesce ==
    \/ \E c \in Callers, n \in Names : NoneSettled(n) /\ loadDatastore(c, n, FALSE)
    \/ \E c \in Callers, rej \in MaybeRejection, ms \in Statuses, ss \in Statuses :
          LoadDatastoreFetched(c, rej, ms, ss)
    \/ \E c \in Callers, rej \in MaybeRejection : LoadDatastoreBuffered(c, rej)
    \/ \E c \in Callers, rej \in MaybeRejection : LoadDatastoreRegistered(c, rej)
    \/ \E c \in Callers, rej \in MaybeRejection, rows \in SidecarCases,
          fails \in BOOLEAN : LoadDatastoreQueried(c, rej, rows, fails)
    \/ \E c \in Callers : Cleanup(c)
    \/ \E c \in Callers : Poll(c)

SpecCoalesce == Init /\ [][NextCoalesce]_vars

\* ----------------------------------------------- the store of part_018
\* DatastoreCache of this variant has no dataLoaded field.
SidecarInitialEntry(load) ==
    [data |-> 0, totalRecords |-> 0, columns |-> <<>>,
     filterOptions |-> EmptyOptions, loading |-> TRUE,
     error |-> Null, project |-> Null, load |-> load]

SidecarLoadedEntry(rows, total, cols, opts, project, load) ==
    [data |-> rows, totalRecords |-> total, columns |-> cols,
     filterOptions |-> opts, loading |-> FALSE,
     error |-> Null, project |-> project, load |-> load]

SidecarErroredEntry(msg, load) ==
    [data |-> 0, totalRecords |-> 0, columns |-> <<>>,
     filterOptions |-> EmptyOptions, loading |-> FALSE,
     error |-> Some(msg), project |-> Null, load |-> load]

SidecarCreateEmptyCache ==
    [data |-> 0, totalRecords |-> 0, columns |-> <<>>,
     filterOptions |-> EmptyOptions, loading |-> FALSE,
     error |-> Some("Datastore not found"), project |-> Null, load |-> 0]

\* getFilterOptions of this variant: {} unless the sidecar has exactly one
\* row; the columns path and filename are skipped.
SidecarGetFilterOptions(rows, queryFails) ==
    IF queryFails THEN EmptyOptions
    ELSE IF Len(rows) # 1 THEN EmptyOptions
    ELSE [c \in DOMAIN rows[1] \ {"path", "filename"} |->
             SelectSeq(rows[1][c], NonBlank)]

\* A size query that reports no records at all.
getEsmDatastoreSizeZero(numRecordsKey, queryFails) == 0

\* getEsmDatastoreSize: num_records of the sidecar's key-value metadata, or
\* 1000000 when the query fails or the key is missing.
SizeFallback == 1000000
getEsmDatastoreSize(numRecordsKey, queryFails) ==
    IF queryFails \/ numRecordsKey = Null THEN SizeFallback
    ELSE numRecordsKey[1]

\* Object.keys(sampleData[0] || {}) of the rows the service returns.
SampleColumns(n) ==
    IF DatasetRows(n) = 0 THEN <<>>
    ELSE <<"experiment", "__index_level_0__", "realm">>

\* The threshold test with >= in place of >.
ExceedsThresholdInclusive(numRecords) == numRecords >= Threshold

\* if (numRecords > 10_000): metadata only, the rows are not stored
ExceedsThreshold(numRecords) == numRecords > Threshold

\* if (cached && cached.columns.length > 0 && !cached.loading) return cached
SidecarCacheHit(cached) == Len(cached.columns) > 0 /\ ~cached.loading

SidecarPollResult(n) == IF Has(n) THEN cache[n] ELSE SidecarCreateEmptyCache

\* The synchronous head of loadDatastore(datastoreName): only the sidecar
\* fetch and initializeDuckDB are issued here.
SidecarLoadDatastore(c, n) ==
    /\ DatastoreOnly
    /\ /\ callers[c].pc = "idle"
       /\ IF Has(n) /\ SidecarCacheHit(cache[n])
            THEN ReturnNow(c, n, "loadDatastore", FALSE, cache[n])
          ELSE IF AlreadyLoading(n)
            THEN StartWaiting(c, n, "loadDatastore", FALSE)
          ELSE /\ loads < MaxLoads
               /\ loads' = loads + 1
               /\ cache' = Put(n, SidecarInitialEntry(loads + 1))
               /\ sidecarFetches' = [sidecarFetches EXCEPT ![n] = @ + 1]
               /\ callers' = [callers EXCEPT ![c] =
                     [IdleCaller EXCEPT !.op = "loadDatastore", !.name = n,
                                        !.pc = "fetch", !.load = loads + 1,
                                        !.engine = "started"]]
               /\ UNCHANGED <<mainFetches, evicted, failed>>

SidecarCatch(c, err) ==
    LET n == callers[c].name IN
    /\ cache' = Put(n, SidecarErroredEntry(ErrorMessage(err), callers[c].load))
    /\ callers' = [callers EXCEPT ![c].pc = "cleanup", ![c].err = Some(err),
                                  ![c].revived = ~Has(n)]
    /\ failed' = failed \cup {callers[c].load}
    /\ UNCHANGED <<loads, mainFetches, sidecarFetches, evicted>>

SidecarWrite(c, rows, cols) ==
    LET n == callers[c].name
        entry == SidecarLoadedEntry(rows, callers[c].numRecords, cols,
                                    callers[c].opts, DatasetProject(n),
                                    callers[c].load)
    IN
    /\ cache' = Put(n, entry)
    /\ callers' = [callers EXCEPT ![c].pc = "cleanup",
                                  ![c].result = Some(entry),
                                  ![c].revived = ~Has(n)]
    /\ UNCHANGED <<loads, mainFetches, sidecarFetches, evicted, failed>>

\* await Promise.all([fetch(sidecarUrl).then(ok ? arrayBuffer : throw),
\*                    initializeDuckDB()])
SidecarFetched(c, rej, sidecarStatus) ==
    /\ DatastoreOnly
    /\ /\ Running(c, "fetch")
       /\ IF rej # Null THEN SidecarCatch(c, rej[1])
          ELSE IF sidecarStatus # OkStatus
            THEN SidecarCatch(c,
                    Err("Failed to fetch sidecar parquet file: " \o sidecarStatus))
          ELSE Acquire(c, "register")

\* await db.registerFileBuffer(sidecarFileName, sidecarUint8Array)
SidecarRegistered(c, rej) ==
    /\ DatastoreOnly
    /\ /\ Running(c, "register")
       /\ IF rej # Null THEN SidecarCatch(c, rej[1])
          ELSE Advance(c, "query")

\* await Promise.all([getEsmDatastoreProject, getFilterOptions,
\*                    getEsmDatastoreSize]); only the first may reject.
SidecarQueried(c, rej, sidecarRows, optionsFail, numRecordsKey, sizeFails) ==
    /\ DatastoreOnly
    /\ /\ Running(c, "query")
       /\ IF rej # Null THEN SidecarCatch(c, rej[1])
          ELSE /\ callers' = [callers EXCEPT
                    ![c].pc = "sample",
                    ![c].opts = SidecarGetFilterOptions(sidecarRows, optionsFail),
                    ![c].numRecords = getEsmDatastoreSize(numRecordsKey, sizeFails)]
               /\ UNCHANGED <<cache, loads, mainFetches, sidecarFetches, evicted, failed>>

\* sampleData = await queryEsmDatastore(datastoreName), then the branch on
\* the row count: above the threshold the metadata-only entry is written,
\* otherwise fetch(datastoreUrl) is issued.
SidecarSampled(c, rej) ==
    /\ DatastoreOnly
    /\ /\ Running(c, "sample")
       /\ IF rej # Null THEN SidecarCatch(c, rej[1])
          ELSE IF ExceedsThreshold(callers[c].numRecords)
            THEN SidecarWrite(c, 0, setupColumns(SampleColumns(callers[c].name)))
          ELSE /\ callers' = [callers EXCEPT ![c].pc = "fetchMain"]
               /\ mainFetches' = [mainFetches EXCEPT ![callers[c].name] = @ + 1]
               /\ UNCHANGED <<cache, loads, sidecarFetches, evicted, failed>>

\* response = await fetch(datastoreUrl); if (!response.ok) throw
SidecarMainFetched(c, rej, mainStatus) ==
    /\ DatastoreOnly
    /\ /\ Running(c, "fetchMain")
       /\ IF rej # Null THEN SidecarCatch(c, rej[1])
          ELSE IF mainStatus # OkStatus
            THEN SidecarCatch(c,
                    Err("Failed to fetch datastore parquet file: " \o mainStatus))
          ELSE Advance(c, "buffer")

\* arrayBuffer = await response.arrayBuffer()
SidecarMainBuffered(c, rej) ==
    /\ DatastoreOnly
    /\ /\ Running(c, "buffer")
       /\ IF rej # Null THEN SidecarCatch(c, rej[1])
          ELSE Advance(c, "registerMain")

\* await db.registerFileBuffer(fileName, uint8Array)
SidecarMainRegistered(c, rej) ==
    /\ DatastoreOnly
    /\ /\ Running(c, "registerMain")
       /\ IF rej # Null THEN SidecarCatch(c, rej[1])
          ELSE Advance(c, "rows")

\* datastoreData = await loadEsmDatastore(conn, fileName): every row of the
\* main file; then the entry with the rows is written.
SidecarRowsLoaded(c, rej) ==
    /\ DatastoreOnly
    /\ /\ Running(c, "rows")
       /\ IF rej # Null THEN SidecarCatch(c, rej[1])
          ELSE SidecarWrite(c, DatasetRows(callers[c].name),
                            setupColumns(SampleColumns(callers[c].name)))

SidecarPoll(c) == PollWith(c, SidecarPollResult(callers[c].name))

\* What the sidecar's num_records key may hold for the dataset of task c.
NumRecordsKeys(c) == {Null, Some(DatasetRows(callers[c].name))}

NextSidecar ==
    \/ \E c \in Callers, n \in Names : SidecarLoadDatastore(c, n)
    \/ \E c \in Callers, rej \in MaybeRejection, ss \in Statuses :
          SidecarFetched(c, rej, ss)
    \/ \E c \in Callers, rej \in MaybeRejection : SidecarRegistered(c, rej)
    \/ \E c \in Callers, rej \in MaybeRejection, rows \in SidecarCases,
          optionsFail \in BOOLEAN, sizeFails \in BOOLEAN :
          \E key \in NumRecordsKeys(c) :
             SidecarQueried(c, rej, rows, optionsFail, key, sizeFails)
    \/ \E c \in Callers, rej \in MaybeRejection : SidecarSampled(c, rej)
    \/ \E c \in Callers, rej \in MaybeRejection, ms \in Statuses :
          SidecarMainFetched(c, rej, ms)
    \/ \E c \in Callers, rej \in MaybeRejection : SidecarMainBuffered(c, rej)
    \/ \E c \in Callers, rej \in MaybeRejection : SidecarMainRegistered(c, rej)
    \/ \E c \in Callers, rej \in MaybeRejection : SidecarRowsLoaded(c, rej)
    \/ \E c \in Callers : Cleanup(c)
    \/ \E c \in Callers : SidecarPoll(c)
    \/ \E c \in Callers : Release(c)
    \/ \E name \in {Null} \cup {Some(n) : n \in Names} : clearDatastoreCache(name)

SpecSidecar == Init /\ [][NextSidecar]_vars

\* ------------------------------------------------- the metacatalogue
\* Number of metacatalogue fetches that may be started in one behaviour.
MaxFetches == 2

\* Rows of the metacatalogue file; rawData.slice(0, 3) is kept as a sample.
CatalogRows == 5
RawSampleLimit == 3
RawSample(rows) == IF rows < RawSampleLimit THEN rows ELSE RawSampleLimit

\* err instanceof Error ? err.message : 'An unknown error occurred'
CatalogErrorMessage(err) ==
    IF err.isError THEN err.message ELSE "An unknown error occurred"

\* A fetchCatalogData without the early return.
CatalogCachedNever == FALSE

\* if (data.value.length > 0 && !error.value) return
CatalogCached ==
    metacat.data > 0 /\ (metacat.error = Null \/ metacat.error = Some(""))

\* A reset that keeps the recorded error.
ClearedMetacatKeepingError == [metacat EXCEPT !.data = 0, !.rawDataSample = 0]

\* data.value = []; rawDataSample.value = []; error.value = null
ClearedMetacat ==
    [metacat EXCEPT !.data = 0, !.rawDataSample = 0, !.error = Null]

\* What an operation on the metacatalogue leaves alone.
CatalogOnly == UNCHANGED <<datastoreVars, bufferVars, filterVars>>

\* The synchronous head of fetchCatalogData(): the early return, or the
\* flags and the fetch of the metacatalogue file.
fetchCatalogData(c) ==
    /\ CatalogOnly
    /\ UNCHANGED catalogDisturbed
    /\ fetchers[c].pc = "idle"
    /\ IF CatalogCached
         THEN /\ fetchers' = [fetchers EXCEPT ![c] =
                    [IdleFetcher EXCEPT !.pc = "done", !.outcome = "resolved"]]
              /\ UNCHANGED <<metacat, catalogFetches>>
         ELSE /\ catalogFetches < MaxFetches
              /\ metacat' = [metacat EXCEPT !.loading = TRUE,
                                            !.error = Null]
              /\ catalogFetches' = catalogFetches + 1
              /\ fetchers' = [fetchers EXCEPT ![c] =
                    [IdleFetcher EXCEPT !.pc = "fetch", !.fetched = TRUE,
                                        !.engine = "started"]]

\* catch (err) { error.value = ... } finally { if (conn) await conn.close();
\* if (db) await db.terminate(); loading.value = false }: without a
\* connection the finally block runs to its end at once.
FetchCatalogCatch(c, err, hasConn) ==
    /\ catalogDisturbed' = TRUE
    /\ IF hasConn
         THEN /\ metacat' = [metacat EXCEPT !.error = Some(CatalogErrorMessage(err))]
              /\ fetchers' = [fetchers EXCEPT ![c].pc = "cleanup"]
         ELSE /\ metacat' = [metacat EXCEPT !.error = Some(CatalogErrorMessage(err)),
                                            !.loading = FALSE]
              /\ fetchers' = [fetchers EXCEPT ![c].pc = "done",
                                              ![c].outcome = "resolved"]

\* await Promise.all([fetchMetaCatFile(), initializeDuckDB()])
FetchCatalogFetched(c, rej, status) ==
    /\ CatalogOnly
    /\ fetchers[c].pc = "fetch"
    /\ UNCHANGED catalogFetches
    /\ IF rej # Null THEN FetchCatalogCatch(c, rej[1], FALSE)
       ELSE IF status # OkStatus
         THEN FetchCatalogCatch(c, Err("Failed to fetch parquet file: " \o status),
                                FALSE)
       ELSE /\ fetchers' = [fetchers EXCEPT ![c].pc = "register",
                                            ![c].engine = "held"]
            /\ UNCHANGED <<metacat, catalogDisturbed>>

\* queryMetaCatalogPq: await db.registerFileBuffer('metacatalog.parquet', ...)
FetchCatalogRegistered(c, rej) ==
    /\ CatalogOnly
    /\ fetchers[c].pc = "register"
    /\ UNCHANGED catalogFetches
    /\ IF rej # Null THEN FetchCatalogCatch(c, rej[1], TRUE)
       ELSE /\ fetchers' = [fetchers EXCEPT ![c].pc = "query"]
            /\ UNCHANGED <<metacat, catalogDisturbed>>

\* queryMetaCatalogPq: await conn.query(...), rawDataSample.value = sample,
\* and data.value = the transformed rows.
FetchCatalogQueried(c, rej) ==
    /\ CatalogOnly
    /\ fetchers[c].pc = "query"
    /\ UNCHANGED catalogFetches
    /\ IF rej # Null THEN FetchCatalogCatch(c, rej[1], TRUE)
       ELSE /\ metacat' = [metacat EXCEPT !.data = CatalogRows,
                                          !.rawDataSample = RawSample(CatalogRows)]
            /\ fetchers' = [fetchers EXCEPT ![c].pc = "cleanup",
                                            ![c].wrote = TRUE]
            /\ UNCHANGED catalogDisturbed

\* finally: await conn.close(); await db.terminate(); loading.value = false
FetchCatalogCleanup(c) ==
    /\ CatalogOnly
    /\ fetchers[c].pc = "cleanup"
    /\ metacat' = [metacat EXCEPT !.loading = FALSE]
    /\ fetchers' = [fetchers EXCEPT ![c].pc = "done", ![c].outcome = "resolved",
                                    ![c].engine = "closed"]
    /\ UNCHANGED <<catalogFetches, catalogDisturbed>>

\* The code that awaited fetchCatalogData consumes its settled promise.
FetchCatalogRelease(c) ==
    /\ CatalogOnly
    /\ fetchers[c].pc = "done"
    /\ fetchers' = [fetchers EXCEPT ![c] = IdleFetcher]
    /\ UNCHANGED <<metacat, catalogFetches, catalogDisturbed>>

\* clearData()
clearData ==
    /\ CatalogOnly
    /\ metacat' = ClearedMetacat
    /\ catalogDisturbed' = TRUE
    /\ UNCHANGED <<fetchers, catalogFetches>>

NextCatalog ==
    \/ \E c \in Callers : fetchCatalogData(c)
    \/ \E c \in Callers, rej \in MaybeRejection, status \in Statuses :
          FetchCatalogFetched(c, rej, status)
    \/ \E c \in Callers, rej \in MaybeRejection : FetchCatalogRegistered(c, rej)
    \/ \E c \in Callers, rej \in MaybeRejection : FetchCatalogQueried(c, rej)
    \/ \E c \in Callers : FetchCatalogCleanup(c)
    \/ \E c \in Callers : FetchCatalogRelease(c)
    \/ clearData

SpecCatalog == Init /\ [][NextCatalog]_vars

\* The metacatalogue together with metadata loads of the datastore cache:
\* every task makes at most one call of each kind.
NextStore ==
    \/ \E c \in Callers, n \in Names : loadDatastore(c, n, FALSE)
    \/ \E c \in Callers, rej \in MaybeRejection, ms \in Statuses, ss \in Statuses :
          LoadDatastoreFetched(c, rej, ms, ss)
    \/ \E c \in Callers, rej \in MaybeRejection : LoadDatastoreBuffered(c, rej)
    \/ \E c \in Callers, rej \in MaybeRejection : LoadDatastoreRegistered(c, rej)
    \/ \E c \in Callers, rej \in MaybeRejection, rows \in SidecarCases,
          fails \in BOOLEAN : LoadDatastoreQueried(c, rej, rows, fails)
    \/ \E c \in Callers : Cleanup(c)
    \/ \E c \in Callers : fetchCatalogData(c)
    \/ \E c \in Callers, rej \in MaybeRejection, status \in Statuses :
          FetchCatalogFetched(c, rej, status)
    \/ \E c \in Callers, rej \in MaybeRejection : FetchCatalogRegistered(c, rej)
    \/ \E c \in Callers, rej \in MaybeRejection : FetchCatalogQueried(c, rej)
    \/ \E c \in Callers : FetchCatalogCleanup(c)
    \/ clearData

SpecStore == Init /\ [][NextStore]_vars

\* ------------------------------------------- open-dropdown buffering
\* What a dropdown event or a recompute leaves alone.
BufferOnly == UNCHANGED <<datastoreVars, catalogVars, filterVars>>

\* onDropdownOpen(col): add col to openColumns.
onDropdownOpen(col) ==
    /\ BufferOnly
    /\ openColumns' = openColumns \cup {col}
    /\ applied' = Null
    /\ UNCHANGED <<pendingUpdates, liveOptions, lastRecompute>>

\* A recompute that buffers nothing.
BufferedNever(col) == FALSE

\* The options of col are buffered while its dropdown is open.
Buffered(col) == col \in openColumns

\* A recompute that writes nothing to liveOptions.
LiveAfterRecomputeKept(newOptions) == liveOptions

\* liveOptions after a recompute: the columns that are not buffered
\* receive their new options.
LiveAfterRecompute(newOptions) ==
    [col \in Columns |->
        IF Buffered(col) THEN liveOptions[col] ELSE newOptions[col]]

\* onRecompute(newOptionsPerColumn): options of open columns go to
\* pendingUpdates, options of the other columns go to liveOptions.
onRecompute(newOptions) ==
    /\ BufferOnly
    /\ pendingUpdates' =
          [col \in DOMAIN pendingUpdates \cup {c \in Columns : Buffered(c)} |->
              IF Buffered(col) THEN newOptions[col] ELSE pendingUpdates[col]]
    /\ liveOptions' = LiveAfterRecompute(newOptions)
    /\ applied' = Null
    /\ lastRecompute' = Some(newOptions)
    /\ UNCHANGED openColumns

\* A close that drops the buffered options without applying them.
LiveAfterCloseUnapplied(col) == liveOptions

\* liveOptions after the pending update of col, if any, is moved into it.
LiveAfterClose(col) ==
    IF col \in DOMAIN pendingUpdates
    THEN [liveOptions EXCEPT ![col] = pendingUpdates[col]]
    ELSE liveOptions

\* A close that empties the whole buffer.
PendingAfterCloseEmptied(col) == NoPending

\* A close that leaves the buffer as it is.
PendingAfterCloseKept(col) == pendingUpdates

\* pendingUpdates after the entry of col is deleted.
PendingAfterClose(col) ==
    [c \in DOMAIN pendingUpdates \ {col} |-> pendingUpdates[c]]

\* onDropdownClose(col): remove col from openColumns; a pending update of
\* col is moved to liveOptions and its buffer entry deleted.
onDropdownClose(col) ==
    /\ BufferOnly
    /\ openColumns' = openColumns \ {col}
    /\ liveOptions' = LiveAfterClose(col)
    /\ pendingUpdates' = PendingAfterClose(col)
    /\ applied' = IF col \in DOMAIN pendingUpdates THEN Some(col) ELSE Null
    /\ UNCHANGED lastRecompute

NextBuffer ==
    \/ \E col \in Columns : onDropdownOpen(col)
    \/ \E newOptions \in [Columns -> OptionLists] : onRecompute(newOptions)
    \/ \E col \in Columns : onDropdownClose(col)

SpecBuffer == Init /\ [][NextBuffer]_vars

\* ------------------------------------------- narrowed filter options
\* FilterSelectors (dynamicFilterOptions) and the row filter of the
\* datastore page (filteredData).  A JS string is the sequence of its
\* characters; a cell of a row is null, a string or an array of strings,
\* as the row normalisation of the store leaves it.
MaxRows == 2

Ocean == <<"o">>
OceanBgc == <<"O", "c">>
Carbon == <<"c">>
CellStrings == {Ocean, OceanBgc, Carbon}

NullCell == [kind |-> "null"]
ScalarCell(s) == [kind |-> "scalar", value |-> s]
ArrayCell(items) == [kind |-> "array", items |-> items]
Cells == {NullCell, ScalarCell(Ocean), ScalarCell(OceanBgc), ArrayCell(<<Ocean, Carbon>>)}
Rows == [Columns -> Cells]
RowLists == UNION {[1..n -> Rows] : n \in 0..MaxRows}

\* The static option lists of the columns and the selections of a column.
OptionChoices ==
    {[col \in Columns |-> IF col = "realm" THEN <<Ocean, OceanBgc, Carbon>>
                                            ELSE <<Carbon, Ocean>>],
     [col \in Columns |-> IF col = "realm" THEN <<Carbon, Ocean>>
                                            ELSE <<Ocean, OceanBgc, Carbon>>]}
Selections ==
    {<<>>} \cup {<<s>> : s \in CellStrings}
           \cup {p \in CellStrings \X CellStrings : p[1] # p[2]}

\* String.prototype.toLowerCase.
LowerOf(ch) == IF ch = "O" THEN "o" ELSE IF ch = "C" THEN "c" ELSE ch
toLowerCase(s) == [i \in 1..Len(s) |-> LowerOf(s[i])]

\* String.prototype.includes.
includes(s, t) ==
    \E i \in 1..(Len(s) - Len(t) + 1) : SubSeq(s, i, i + Len(t) - 1) = t

\* Array.isArray(cellValue).
isArray(cellValue) == cellValue.kind = "array"

\* String(cellValue || '') of a cell that is not an array.
StringOrEmpty(cellValue) ==
    IF cellValue.kind = "scalar" THEN cellValue.value ELSE <<>>

\* A row predicate that asks for every selected value.
SelectionMatchesEvery(cellValue, filterValues) ==
    \A k \in 1..Len(filterValues) :
        IF isArray(cellValue)
        THEN \E j \in 1..Len(cellValue.items) :
                includes(toLowerCase(cellValue.items[j]), toLowerCase(filterValues[k]))
        ELSE includes(toLowerCase(StringOrEmpty(cellValue)), toLowerCase(filterValues[k]))

\* filterValues.some(fv => ...): the cell contains one of the selected
\* values, without regard to case.
SelectionMatches(cellValue, filterValues) ==
    \E k \in 1..Len(filterValues) :
        IF isArray(cellValue)
        THEN \E j \in 1..Len(cellValue.items) :
                includes(toLowerCase(cellValue.items[j]), toLowerCase(filterValues[k]))
        ELSE includes(toLowerCase(StringOrEmpty(cellValue)), toLowerCase(filterValues[k]))

\* A narrowing that applies the selection of the column itself as well.
IsAnyFilter(filterColumn, column, filterValues) == Len(filterValues) > 0

\* filterColumn !== column && filterValues && filterValues.length > 0
IsOtherFilter(filterColumn, column, filterValues) ==
    filterColumn # column /\ Len(filterValues) > 0

\* availableData: the rows that satisfy the selection of every other column.
availableData(column) ==
    LET Survives(row) ==
            \A filterColumn \in DOMAIN modelValue :
                IsOtherFilter(filterColumn, column, modelValue[filterColumn])
                    => SelectionMatches(row[filterColumn], modelValue[filterColumn])
    IN  SelectSeq(rawData, Survives)

\* Options collected from scalar cells only.
CellValuesScalarOnly(cellValue) ==
    IF cellValue.kind = "scalar" THEN {cellValue.value} ELSE {}

\* What one cell adds to validOptions.
CellValues(cellValue) ==
    IF isArray(cellValue)
    THEN {cellValue.items[j] : j \in 1..Len(cellValue.items)}
    ELSE IF cellValue.kind = "scalar" THEN {cellValue.value} ELSE {}

validOptions(column, rows) ==
    UNION {CellValues(rows[i][column]) : i \in 1..Len(rows)}

\* result[column]: the static options of the column that are valid.
narrowedOptions(column) ==
    LET valid == validOptions(column, availableData(column))
        IsValid(option) == option \in valid
    IN  SelectSeq(filterOptions[column], IsValid)

\* dynamicFilterOptions: the narrowed options of every column.
dynamicFilterOptions ==
    [column \in DOMAIN filterOptions |-> narrowedOptions(column)]

\* filteredData: the rows that satisfy the selection of every column.
filteredData ==
    LET Passes(row) ==
            \A column \in DOMAIN modelValue :
                Len(modelValue[column]) > 0
                    => SelectionMatches(row[column], modelValue[column])
    IN  SelectSeq(rawData, Passes)

\* What a change of the props of FilterSelectors leaves alone.
FilterOnly == UNCHANGED <<datastoreVars, catalogVars, bufferVars>>

\* The datastore is loaded: rawData and filterOptions are the data and
\* filterOptions of its cache entry.
setProps(rows, options) ==
    /\ FilterOnly
    /\ DOMAIN filterOptions = {}
    /\ rawData' = rows
    /\ filterOptions' = options
    /\ UNCHANGED modelValue

\* updateFilter(column, value): emit update:modelValue with the selection
\* of column replaced.
updateFilter(column, value) ==
    /\ FilterOnly
    /\ modelValue' = [modelValue EXCEPT ![column] = value]
    /\ UNCHANGED <<rawData, filterOptions>>

\* clearFilters: currentFilters.value = {}.
clearFilters ==
    /\ FilterOnly
    /\ modelValue' = NoSelection
    /\ UNCHANGED <<rawData, filterOptions>>

NextFilter ==
    \/ \E rows \in RowLists, options \in OptionChoices : setProps(rows, options)
    \/ \E column \in Columns, value \in Selections : updateFilter(column, value)
    \/ clearFilters

SpecFilter == Init /\ [][NextFilter]_vars

\* ================================================================ claims
\* loadState of the entry of name n in cache map ch.
StateOf(ch, n) ==
    IF n \notin DOMAIN ch THEN "absent"
    ELSE IF ch[n].loading THEN "loading"
    ELSE IF ch[n].error # Null THEN "errored"
    ELSE "loaded"

\* The awaits of a load sequence (fetch plus engine queries).
InFlightPcs == {"fetch", "buffer", "register", "query", "rows"}
InFlight(c, n) == callers[c].name = n /\ callers[c].pc \in InFlightPcs

\* Task c makes, in this step, the call op(n, ...).
Calls(c, n, op) ==
    /\ callers[c].pc = "idle"
    /\ callers'[c].pc # "idle"
    /\ callers'[c].op = op
    /\ callers'[c].name = n

\* Task c, which started a load of n, completes it in this step (the write
\* of the loaded or errored entry).
Completes(c, n) == InFlight(c, n) /\ callers'[c].pc = "cleanup"

\* C1: at most one load sequence is in flight for any dataset name, under
\* any interleaving of loadDatastore and clearDatastoreCache calls.
C1_AtMostOneLoadInFlight ==
    \A n \in Names : Cardinality({c \in Callers : InFlight(c, n)}) <= 1

\* ---------------------------------------------------------------- C3
\* Task c leaves the polling loop in this step.
PollReturns(c) == callers[c].pc = "wait" /\ callers'[c].pc = "done"

\* C3 (as stated): a call that found the entry loading returns the entry
\* produced by the load it found in flight (stated here for the runs in
\* which nothing was ever evicted, where it already fails).
C3_WaiterReturnsAwaitedLoad ==
    \A c \in Callers :
        (callers[c].pc = "done" /\ callers[c].awaited # 0 /\ ~evicted)
            => callers[c].result[1].load = callers[c].awaited

\* C3 (amended): a loadDatastore call that finds the entry loading starts no
\* load of its own (no fetch, no cache write) and does not return while the
\* entry is still loading; it returns at the first poll that finds the entry
\* not loading, with the entry stored under the name at that moment, or the
\* 'Datastore not found' entry when the name is no longer cached.
C3_WaiterPolls ==
    [][\A c \in Callers : \A n \in Names :
        /\ (Calls(c, n, "loadDatastore") /\ Has(n) /\ cache[n].loading)
              => /\ callers'[c].pc = "wait"
                 /\ callers'[c].load = 0
                 /\ UNCHANGED <<cache, loads, mainFetches, sidecarFetches>>
        /\ (callers[c].pc = "wait" /\ callers[c].name = n)
              => /\ callers'[c].pc \in {"wait", "done"}
                 /\ callers'[c].load = 0
        /\ (PollReturns(c) /\ callers[c].name = n)
              => /\ ~(Has(n) /\ cache[n].loading)
                 /\ callers'[c].outcome = "resolved"
                 /\ callers'[c].result =
                       Some(IF Has(n) THEN cache[n] ELSE createEmptyCache)
                 /\ UNCHANGED <<cache, loads, mainFetches, sidecarFetches>>
      ]_vars

\* C3 witness: a call that waited has returned the entry of the load it
\* waited for, which is the entry the cache holds.
C3_Witness ==
    \E c \in Callers :
        /\ callers[c].pc = "done" /\ callers[c].op = "loadDatastore"
        /\ callers[c].awaited # 0 /\ callers[c].load = 0
        /\ Has(callers[c].name)
        /\ callers[c].result = Some(cache[callers[c].name])
        /\ callers[c].result[1].load = callers[c].awaited

\* ---------------------------------------------------------------- C4
\* C4: when the entry of name is loaded, loadDatastore(name) (and
\* loadDatastore(name, true) once the rows are loaded) returns that entry,
\* issues no fetch, starts no load and leaves the cache unchanged.
C4_CacheHitIsPure ==
    [][\A c \in Callers : \A n \in Names :
        (/\ Calls(c, n, "loadDatastore")
         /\ StateOf(cache, n) = "loaded"
         /\ (~callers'[c].loadData \/ cache[n].dataLoaded))
        => /\ callers'[c].pc = "done"
           /\ callers'[c].outcome = "resolved"
           /\ callers'[c].result = Some(cache[n])
           /\ callers'[c].load = 0
           /\ UNCHANGED <<cache, loads, mainFetches, sidecarFetches>>
      ]_vars

\* C4 witness: a call that started no load and did not wait has resolved
\* with the loaded entry the cache holds.
C4_Witness ==
    \E c \in Callers :
        /\ callers[c].pc = "done" /\ callers[c].op = "loadDatastore"
        /\ ~callers[c].loadData
        /\ callers[c].load = 0 /\ callers[c].awaited = 0
        /\ callers[c].outcome = "resolved"
        /\ StateOf(cache, callers[c].name) = "loaded"
        /\ callers[c].result = Some(cache[callers[c].name])

C6_WaiterGetsErroredEntry ==
    [][\A c \in Callers :
        (/\ PollReturns(c)
         /\ ~evicted
         /\ callers[c].awaited \in failed)
        => /\ callers'[c].result[1].load = callers[c].awaited
           /\ callers'[c].result[1].error # Null
      ]_vars

\* C6 (amended): a call that waits on an in-flight load is never rejected:
\* it resolves normally, and the exception goes only to calls that started a
\* load; when the errored entry is still stored under the name at the poll
\* that ends the wait, the waiting call resolves with that errored entry.
C6_WaiterResolvesNormally ==
    /\ [](\A c \in Callers :
            /\ (callers[c].pc = "done" /\ callers[c].awaited # 0)
                  => callers[c].outcome = "resolved" /\ callers[c].err = Null
            /\ (callers[c].outcome = "rejected" \/ callers[c].err # Null)
                  => callers[c].load # 0 /\ callers[c].awaited = 0)
    /\ [][\A c \in Callers :
            (PollReturns(c) /\ StateOf(cache, callers[c].name) = "errored")
            => /\ callers'[c].outcome = "resolved"
               /\ callers'[c].result = Some(cache[callers[c].name])
         ]_vars

\* C6 witness: the load failed, the call that started it is rejected and the
\* call that waited on it has resolved with its errored entry.
C6_Witness ==
    \E c \in Callers, d \in Callers :
        /\ callers[c].pc = "done" /\ callers[c].awaited # 0
        /\ callers[c].outcome = "resolved"
        /\ callers[d].pc = "done" /\ callers[d].load = callers[c].awaited
        /\ callers[d].outcome = "rejected"
        /\ callers[c].result[1].error # Null
        /\ callers[c].result[1].load = callers[d].load

\* ---------------------------------------------------------------- C7
\* C7: a loadDatastore call on a name whose entry is errored re-enters
\* loading and starts a new load.
C7_ErroredEntryIsReloaded ==
    [][\A c \in Callers : \A n \in Names :
        (Calls(c, n, "loadDatastore") /\ StateOf(cache, n) = "errored")
        => /\ callers'[c].pc = "fetch"
           /\ StateOf(cache', n) = "loading"
      ]_vars

\* ---------------------------------------------------------------- C9
\* C9: a cache entry carries an error message only when it is errored: an
\* entry that is loading, or whose rows are loaded, has none.
C9_ErrorOnlyWhenErrored ==
    \A n \in DOMAIN cache :
        (cache[n].loading \/ cache[n].dataLoaded) => cache[n].error = Null

\* ---------------------------------------------------------------- C8
\* C8 (as stated): the entry of a name enters loaded or errored only from
\* loading, enters loading only from absent or errored, and leaves loaded
\* only by eviction to absent (stated here for the steps of runs in which
\* nothing was ever evicted, where it already fails).
C8_LifecycleAsStated ==
    [][\A n \in Names :
        LET old == StateOf(cache, n)
            new == StateOf(cache', n)
        IN evicted' \/
           /\ (new \in {"loaded", "errored"} /\ new # old) => old = "loading"
           /\ (new = "loading" /\ old # "loading") => old \in {"absent", "errored"}
           /\ (old = "loaded" /\ new # "loaded") => new = "absent"
      ]_vars

\* A load sequence of n completes in this step although the entry it
\* initialised was evicted or replaced while it was in flight.
StaleCompletion(n) ==
    \E c \in Callers :
        /\ Completes(c, n)
        /\ (~Has(n) \/ cache[n].load # callers[c].load)

\* C8 (amended): the entry of a name enters loading only from absent, from
\* errored, or from loaded with its rows not yet loaded (a rows load); it
\* enters loaded or errored only when a load sequence of that name completes,
\* which finds the entry loading unless the name was evicted or reloaded
\* while that load was in flight; and it leaves loaded only by eviction, by
\* a rows load, or by being overwritten by such a late completion.
C8_Lifecycle ==
    [][\A n \in Names :
        LET old == StateOf(cache, n)
            new == StateOf(cache', n)
        IN /\ (new \in {"loaded", "errored"} /\ new # old)
                => /\ \E c \in Callers : Completes(c, n)
                   /\ old = "loading" \/ StaleCompletion(n)
           /\ (new = "loading" /\ old # "loading")
                => \/ old \in {"absent", "errored"}
                   \/ old = "loaded" /\ ~cache[n].dataLoaded
           /\ (old = "loaded" /\ new # "loaded")
                => \/ new = "absent"
                   \/ new = "loading" /\ ~cache[n].dataLoaded
                   \/ new = "errored" /\ StaleCompletion(n)
      ]_vars

\* C8 witness: a name has gone absent -> loading -> loaded -> loading (rows
\* load) -> loaded: its entry is loaded with rows by the second load sequence.
C8_Witness ==
    \E n \in Names :
        /\ StateOf(cache, n) = "loaded"
        /\ cache[n].dataLoaded
        /\ cache[n].load = 2
        /\ mainFetches[n] = 2
        /\ ~evicted


\* ---------------------------------------------------------------- C2
\* The calls made for name n.
CallsOn(n) == {c \in Callers : callers[c].op # "none" /\ callers[c].name = n}

\* C2: however many concurrent loadDatastore(name) calls are made on a cache
\* without an entry for the name, one fetch pair (main file and sidecar) is
\* issued, the calls that resolve all resolve with equal entries, and when
\* the load succeeds every call resolves.
C2_ConcurrentCallsCoalesce ==
    \A n \in Names :
        /\ CallsOn(n) # {} => mainFetches[n] = 1 /\ sidecarFetches[n] = 1
        /\ \A c \in CallsOn(n), d \in CallsOn(n) :
              (callers[c].outcome = "resolved" /\ callers[d].outcome = "resolved")
                  => callers[c].result = callers[d].result
        /\ \A c \in CallsOn(n), d \in CallsOn(n) :
              (callers[c].load # 0 /\ callers[c].outcome = "resolved"
                  /\ callers[d].pc = "done")
                  => callers[d].outcome = "resolved"

\* C2 witness: every task called loadDatastore of the same name on the cold
\* cache, one of them loaded and the others waited, and all have resolved
\* with the loaded entry after a single fetch pair.
C2_Witness ==
    \E n \in Names :
        /\ CallsOn(n) = Callers
        /\ \A c \in Callers : callers[c].pc = "done" /\ callers[c].outcome = "resolved"
        /\ \E c \in Callers :
              /\ callers[c].load # 0
              /\ \A d \in Callers \ {c} :
                    callers[d].awaited = callers[c].load /\ callers[d].load = 0
        /\ \A c \in Callers : callers[c].result = Some(cache[n])
        /\ StateOf(cache, n) = "loaded"
        /\ mainFetches[n] = 1 /\ sidecarFetches[n] = 1

C12_ClearLeavesOthers ==
    /\ [](\A n \in Names : ENABLED clearDatastoreCache(Some(n)))
    /\ [][\A n \in Names :
            clearDatastoreCache(Some(n))
            => /\ n \notin DOMAIN cache'
               /\ \A m \in Names \ {n} :
                     /\ (m \in DOMAIN cache') = (m \in DOMAIN cache)
                     /\ m \in DOMAIN cache => cache'[m] = cache[m]
         ]_vars

\* C12 witness: the second dataset to be loaded has been evicted after its
\* load, and the entry of the first is still the loaded one.
C12_Witness ==
    \E n \in Names, m \in Names :
        /\ n # m /\ evicted /\ failed = {}
        /\ ~Has(n) /\ mainFetches[n] = 1
        /\ \A c \in Callers : callers[c].pc = "idle"
        /\ StateOf(cache, m) = "loaded" /\ cache[m].load = 1
        /\ loads = 2

\* ---------------------------------------------------------------- C13
\* C13: when the sidecar query fails or does not return exactly one row, the
\* filter options of the load are the empty mapping, nothing is thrown into
\* the load, and the load goes on to the loaded entry.
C13_BadSidecarGivesNoOptions ==
    [][\A c \in Callers, rows \in SidecarCases, fails \in BOOLEAN :
        (/\ LoadDatastoreQueried(c, Null, rows, fails)
         /\ (fails \/ Len(rows) # 1))
        => /\ callers'[c].err = Null
           /\ IF callers[c].loadData
                THEN callers'[c].pc = "rows" /\ callers'[c].opts = EmptyOptions
                ELSE /\ StateOf(cache', callers[c].name) = "loaded"
                     /\ cache'[callers[c].name].filterOptions = EmptyOptions
      ]_vars

\* ---------------------------------------------------------------- C14
\* Task c's load fails in this step (its catch block runs).
LoadFails(c) == callers[c].err = Null /\ callers'[c].err # Null

\* C14: a load of one name that fails leaves the cache entries of all other
\* names, and the metacatalogue's data, loading flag and error, unchanged.
C14_FailedLoadIsLocal ==
    [][\A c \in Callers :
        LoadFails(c)
        => /\ \A m \in Names \ {callers[c].name} :
                 /\ (m \in DOMAIN cache') = (m \in DOMAIN cache)
                 /\ m \in DOMAIN cache => cache'[m] = cache[m]
           /\ metacat' = metacat
      ]_vars

\* C14 witness: the second load failed and left its entry errored, while
\* the entry of the name loaded first and the loaded metacatalogue stand.
C14_Witness ==
    \E n \in Names, m \in Names :
        /\ n # m
        /\ StateOf(cache, n) = "errored" /\ cache[n].load = 2 /\ 2 \in failed
        /\ StateOf(cache, m) = "loaded" /\ cache[m].load = 1
        /\ metacat.data = CatalogRows /\ metacat.error = Null

\* ---------------------------------------------------------------- C15
\* Task c calls fetchCatalogData in this step.
CallsFetchCatalogData(c) == fetchers[c].pc = "idle" /\ fetchers'[c].pc # "idle"

\* C15: when the catalogue data is loaded and no error is recorded,
\* fetchCatalogData returns at once: it issues no fetch and leaves the
\* data, the loading flag and the error as they were.
C15_FetchIsIdempotent ==
    [][\A c \in Callers :
        (CallsFetchCatalogData(c) /\ metacat.data > 0 /\ metacat.error = Null)
        => /\ metacat' = metacat
           /\ catalogFetches' = catalogFetches
           /\ fetchers'[c].pc = "done"
           /\ fetchers'[c].outcome = "resolved"
           /\ ~fetchers'[c].fetched
      ]_vars

\* C15 witness: a call has returned without fetching, on loaded data with
\* no error.
C15_Witness ==
    \E c \in Callers :
        /\ fetchers[c].pc = "done" /\ ~fetchers[c].fetched
        /\ metacat.data = CatalogRows /\ metacat.error = Null
        /\ catalogFetches = 1

\* ---------------------------------------------------------------- C16
\* A fetchCatalogData call is between its first await and its return.
FetchInProgress ==
    \E c \in Callers : fetchers[c].pc \in {"fetch", "register", "query", "cleanup"}

\* C16: the metacatalogue loading flag is true whenever a fetchCatalogData
\* fetch is in progress, and false when none is.
C16_LoadingTracksFetch == metacat.loading = FetchInProgress

\* ---------------------------------------------------------------- C17
\* C17: every clearData call leaves the metacatalogue without data and
\* without a recorded error.
C17_ClearResets ==
    [][clearData
        => /\ metacat'.data = 0
           /\ metacat'.rawDataSample = 0
           /\ metacat'.error = Null
      ]_vars

\* C17 witness: a fetch stored the catalogue rows, and the metacatalogue is
\* empty and without error again.
C17_Witness ==
    /\ \E c \in Callers : fetchers[c].pc = "done" /\ fetchers[c].wrote
    /\ catalogFetches = 1
    /\ metacat.data = 0 /\ metacat.rawDataSample = 0 /\ metacat.error = Null

\* ---------------------------------------------------------------- C18
\* C18: while the dropdown of column X is open, a recompute leaves
\* liveOptions[X] unchanged and stores the options it computed for X in
\* pendingUpdates[X].
C18_OpenColumnIsBuffered ==
    [][\A newOptions \in [Columns -> OptionLists] :
        onRecompute(newOptions)
        => \A X \in openColumns :
              /\ liveOptions'[X] = liveOptions[X]
              /\ X \in DOMAIN pendingUpdates'
              /\ pendingUpdates'[X] = newOptions[X]
      ]_vars

\* C18 witness: a column is open, its live options are still the initial
\* ones and narrower options are waiting in the buffer.
C18_Witness ==
    \E X \in Columns :
        /\ X \in openColumns
        /\ X \in DOMAIN pendingUpdates
        /\ liveOptions[X] = StaticOptions[X]
        /\ pendingUpdates[X] = <<"daily", "monthly">>

\* ---------------------------------------------------------------- C19
\* C19: closing column X removes X from the open set; a pending update of X
\* becomes liveOptions[X] and its buffer entry is deleted; without a pending
\* update, live and pending options are unchanged.
C19_CloseAppliesPending ==
    [][\A X \in Columns :
        onDropdownClose(X)
        => /\ X \notin openColumns'
           /\ IF X \in DOMAIN pendingUpdates
                THEN /\ liveOptions'[X] = pendingUpdates[X]
                     /\ X \notin DOMAIN pendingUpdates'
                ELSE UNCHANGED <<liveOptions, pendingUpdates>>
      ]_vars

\* C19 witness: the last step closed a column and applied its buffered
\* options, which differ from the initial ones.
C19_Witness ==
    \E X \in Columns :
        /\ applied = Some(X)
        /\ X \notin openColumns /\ X \notin DOMAIN pendingUpdates
        /\ liveOptions[X] = <<"daily">>

\* ---------------------------------------------------------------- C20
\* C20: closing column X changes the live options and the pending entry of
\* X only: every other column keeps its live options, its pending entry and
\* its place in the open set.
C20_CloseIsPerColumn ==
    [][\A X \in Columns :
        onDropdownClose(X)
        => \A Y \in Columns \ {X} :
              /\ liveOptions'[Y] = liveOptions[Y]
              /\ (Y \in DOMAIN pendingUpdates') = (Y \in DOMAIN pendingUpdates)
              /\ Y \in DOMAIN pendingUpdates => pendingUpdates'[Y] = pendingUpdates[Y]
              /\ (Y \in openColumns') = (Y \in openColumns)
      ]_vars

\* C20 witness: with two columns open and buffered, one was closed and got
\* its options; the other is still open with its update still buffered.
C20_Witness ==
    \E X \in Columns, Y \in Columns :
        /\ X # Y
        /\ applied = Some(X) /\ X \notin openColumns
        /\ Y \in openColumns /\ Y \in DOMAIN pendingUpdates
        /\ pendingUpdates[Y] # liveOptions[Y]

\* The props other than the selection of `column` are the same before and
\* after the step.
OnlySelectionOf(column) ==
    /\ rawData' = rawData
    /\ filterOptions' = filterOptions
    /\ \A other \in DOMAIN modelValue \ {column} : modelValue'[other] = modelValue[other]

\* C21: the narrowed options of a column are computed from the rows that
\* satisfy the selections of the other columns and ignore the selection of
\* the column itself: a step that changes nothing but the selection of a
\* column leaves the narrowed options of that column as they were.
C21_OwnSelectionIgnored ==
    [][\A column \in DOMAIN filterOptions :
          OnlySelectionOf(column)
              => narrowedOptions(column)' = narrowedOptions(column)]_vars

\* A column with a selection of its own whose narrowed options still offer
\* a value that selection does not match, while the selection of the other
\* column has removed an option.
C21_Witness ==
    \E column \in DOMAIN filterOptions :
        /\ Len(modelValue[column]) > 0
        /\ \E other \in DOMAIN modelValue \ {column} : Len(modelValue[other]) > 0
        /\ Len(dynamicFilterOptions[column]) < Len(filterOptions[column])
        /\ \E i \in 1..Len(dynamicFilterOptions[column]) :
              ~SelectionMatches(ScalarCell(dynamicFilterOptions[column][i]),
                                modelValue[column])

\* The value `option` occurs in a cell: it is the cell, or one of its items.
Occurs(option, cellValue) ==
    \/ cellValue = ScalarCell(option)
    \/ /\ cellValue.kind = "array"
       /\ \E j \in 1..Len(cellValue.items) : cellValue.items[j] = option

\* a is b with some of its elements left out.
IsSubsequence(a, b) ==
    \E f \in [1..Len(a) -> 1..Len(b)] :
        /\ \A i, j \in 1..Len(a) : i < j => f[i] < f[j]
        /\ \A i \in 1..Len(a) : a[i] = b[f[i]]

\* C22: the narrowed list of a column is a sub-sequence of its static
\* options, and holds exactly the static options that occur in that column
\* of some surviving row.
C22_NarrowedIsSubsequence ==
    \A column \in DOMAIN filterOptions :
        LET narrowed == dynamicFilterOptions[column]
            static == filterOptions[column]
            surviving == availableData(column)
        IN  /\ IsSubsequence(narrowed, static)
            /\ {narrowed[i] : i \in 1..Len(narrowed)} =
                 {static[i] : i \in 1..Len(static)} \cap
                 {option \in CellStrings :
                     \E k \in 1..Len(surviving) : Occurs(option, surviving[k][column])}

\* Narrowed options that leave a static option out and keep the items of
\* an array cell, where a row was removed by the selection of another
\* column.
C22_Witness ==
    \E column \in DOMAIN filterOptions :
        LET narrowed == dynamicFilterOptions[column]
            static == filterOptions[column]
            surviving == availableData(column)
        IN  /\ Len(narrowed) > 0
            /\ Len(narrowed) < Len(static)
            /\ Len(surviving) < Len(rawData)
            /\ \E k \in 1..Len(surviving) : isArray(surviving[k][column])

\* C26: for every value in the narrowed options of a column, a step that
\* adds the value to the selection of that column and keeps the other
\* selections leaves at least one row under the row filter.
C26_NarrowedOptionKeepsARow ==
    [][\A column \in DOMAIN filterOptions :
          /\ OnlySelectionOf(column)
          /\ \E i \in 1..Len(narrowedOptions(column)) :
                modelValue'[column] =
                    Append(modelValue[column], narrowedOptions(column)[i])
          => Len(filteredData') > 0]_vars

\* Both columns have a selection, the selection of one ends with a value
\* its narrowed options offer, and the row filter keeps some rows and
\* removes others.
C26_Witness ==
    \E column \in DOMAIN filterOptions :
        LET selection == modelValue[column]
            narrowed == dynamicFilterOptions[column]
        IN  /\ Len(selection) = 2
            /\ \E i \in 1..Len(narrowed) : narrowed[i] = selection[2]
            /\ \E other \in DOMAIN modelValue \ {column} : Len(modelValue[other]) > 0
            /\ Len(filteredData) > 0
            /\ Len(filteredData) < Len(rawData)

\* C24: once a recompute has happened, the live options of every column
\* that is not open are the options the most recent recompute produced for
\* that column, whatever opens and closes came before or after it.
C24_ClosedColumnsAreCurrent ==
    lastRecompute # Null =>
        \A col \in Columns \ openColumns :
            liveOptions[col] = lastRecompute[1][col]

\* A column that was open during the most recent recompute and has been
\* closed since: its live options are the recomputed ones, and they are not
\* the static options it started with.
C24_Witness ==
    /\ lastRecompute # Null
    /\ applied # Null
    /\ applied[1] \notin openColumns
    /\ liveOptions[applied[1]] = lastRecompute[1][applied[1]]
    /\ liveOptions[applied[1]] # StaticOptions[applied[1]]

\* C29: pendingUpdates holds entries only for columns that are open.
C29_PendingOnlyForOpenColumns ==
    DOMAIN pendingUpdates \subseteq openColumns

\* One column is open with a pending update while another one, whose
\* pending update was just applied, is closed and has no entry.
C29_Witness ==
    /\ applied # Null
    /\ applied[1] \notin openColumns
    /\ applied[1] \notin DOMAIN pendingUpdates
    /\ DOMAIN pendingUpdates # {}

\* C23: clearDatastoreCache(name) during a load of name does not abort the
\* load: the eviction leaves the running call as it is, and the step that
\* completes the load writes its entry back under the name although the
\* name has no entry then, without any new load being started.
C23_EvictedLoadWritesBack ==
    [][\A c \in Callers, n \in Names :
          /\ (callers[c].op = "loadDatastore" /\ InFlight(c, n)
                /\ n \in DOMAIN cache /\ n \notin DOMAIN cache')
                => callers'[c] = callers[c]
          /\ (callers[c].op = "loadDatastore" /\ Completes(c, n)
                /\ n \notin DOMAIN cache)
                => /\ n \in DOMAIN cache'
                   /\ cache'[n].load = callers[c].load
                   /\ ~cache'[n].loading
                   /\ loads' = loads]_vars

\* A load has just succeeded and written its entry under a name that had
\* no entry, and no load was started after it.
C23_Witness ==
    \E c \in Callers :
        /\ callers[c].op = "loadDatastore"
        /\ callers[c].pc = "cleanup"
        /\ callers[c].err = Null
        /\ callers[c].revived
        /\ Has(callers[c].name)
        /\ cache[callers[c].name].load = callers[c].load
        /\ loads = callers[c].load

\* The loadDatastore call of task c reaches a return statement in this step.
Returns(c) ==
    /\ callers'[c].op = "loadDatastore"
    /\ callers[c].result = Null
    /\ callers'[c].result # Null

\* The promise of the loadDatastore call of task c resolves in this step.
Resolves(c) ==
    /\ callers'[c].op = "loadDatastore"
    /\ callers[c].outcome = "pending"
    /\ callers'[c].outcome = "resolved"

\* C27 (as stated): whenever a loadDatastore(name) call resolves, the entry
\* it resolves with is the entry stored in the cache under name at that
\* moment.
C27_ResolvesWithCachedEntry ==
    [][\A c \in Callers :
          Resolves(c) =>
              /\ callers'[c].name \in DOMAIN cache'
              /\ callers'[c].result = Some(cache'[callers'[c].name])]_vars

\* C27 (amended): the value a loadDatastore(name) call returns is the entry
\* stored in the cache under name at the moment of the return statement,
\* except that a call whose wait ends with no entry under name returns the
\* synthetic entry of createEmptyCache().
C27_ReturnsCachedOrSynthetic ==
    [][\A c \in Callers :
          Returns(c) =>
              IF callers'[c].name \in DOMAIN cache'
              THEN callers'[c].result = Some(cache'[callers'[c].name])
              ELSE /\ callers[c].pc = "wait"
                   /\ callers'[c].result = Some(createEmptyCache)]_vars

\* A call that waited has resolved with the synthetic entry, the name
\* having no entry in the cache.
C27_Witness ==
    \E c \in Callers :
        /\ callers[c].op = "loadDatastore"
        /\ callers[c].awaited # 0
        /\ callers[c].outcome = "resolved"
        /\ callers[c].result = Some(createEmptyCache)
        /\ ~Has(callers[c].name)

\* C25: as long as no fetchCatalogData call has failed and clearData has
\* not been called, the metacatalogue file has been fetched at most once,
\* however the fetchCatalogData calls overlap.
C25_FetchedAtMostOnce ==
    catalogDisturbed \/ catalogFetches <= 1

\* C30: the engine instance created for a dataset load or a metacatalogue
\* load has been closed and terminated when the call settles, on success
\* and on every failure path.
C30_EnginesClosedBeforeSettle ==
    /\ \A c \in Callers : callers[c].pc = "done" => callers[c].engine # "started"
    /\ \A c \in Callers : fetchers[c].pc = "done" => fetchers[c].engine # "started"

\* C28: given that every awaited fetch and engine operation completes or
\* fails, every entry that is loading eventually is no longer loading, and
\* every loadDatastore / loadDatastoreData call, whether it started the load
\* or waits on it, eventually resolves or rejects, however the calls
\* interleave with clearDatastoreCache.
C28_EveryCallSettles ==
    /\ \A n \in Names :
          (Has(n) /\ cache[n].loading) ~> ~(Has(n) /\ cache[n].loading)
    /\ \A c \in Callers :
          (callers[c].pc # "idle") ~>
              (callers[c].pc = "done" /\ callers[c].outcome # "pending")

\* A call that started a load and a call that waited on that load have both
\* settled after an eviction, and no entry is loading.
C28_Witness ==
    /\ evicted
    /\ \A n \in Names : ~(Has(n) /\ cache[n].loading)
    /\ \E c, d \in Callers :
          /\ callers[c].pc = "done" /\ callers[c].load # 0
          /\ callers[d].pc = "done" /\ callers[d].awaited = callers[c].load
====
